---- MODULE Spec2Model ----
(***************************************************************************)
(* The HTTP-to-Unix-socket proxy of tools/api-testing/proxy-server.py.     *)
(*                                                                         *)
(* A byte string is a sequence of symbols.  "SP", "CR" and "LF" are the    *)
(* bytes 0x20, 0x0d and 0x0a, "0".."9", "-" and "+" are themselves, "XX"   *)
(* is a byte that is not valid UTF-8 (0xff); every other symbol ("GET",    *)
(* "/p", "Host", "H", "K", "a", ...) is a run of printable bytes holding   *)
(* no space, no CR, no LF, no digit and no sign.                           *)
(***************************************************************************)
EXTENDS Integers, Sequences, FiniteSets, TLC

\* ------------------------------------------------------------------ bounds

\* Number of inbound connections the listener may accept.
NumReq == 2

\* Longest request body a client delivers in the request-side specification.
MaxBody == 2

\* Longest body after the backend's header block in the response-side
\* specification.
MaxRespBody == 2

\* sock.recv(4096), scaled down: the most bytes one recv call returns.
RecvBufSize == 6

Reqs == 1 .. NumReq

\* ------------------------------------------------------------- byte strings

CRLF == <<"CR", "LF">>

Digits == <<"0", "1", "2", "3", "4", "5", "6", "7", "8", "9">>

IsDigit(c) == \E i \in 1 .. 10 : Digits[i] = c

DigitVal(c) == (CHOOSE i \in 1 .. 10 : Digits[i] = c) - 1

\* str.strip()'s notion of white space, as far as the byte alphabet goes.
IsSpace(c) == c \in {"SP", "CR", "LF"}

RECURSIVE LStrip(_)
LStrip(s) ==
    IF s # <<>> /\ IsSpace(Head(s)) THEN LStrip(Tail(s)) ELSE s

RECURSIVE RStrip(_)
RStrip(s) ==
    IF s # <<>> /\ IsSpace(s[Len(s)]) THEN RStrip(SubSeq(s, 1, Len(s) - 1)) ELSE s

RECURSIVE DigitsValue(_)
DigitsValue(s) ==
    IF s = <<>> THEN 0
    ELSE 10 * DigitsValue(SubSeq(s, 1, Len(s) - 1)) + DigitVal(s[Len(s)])

\* int(text): white space stripped, an optional sign, then one or more
\* decimal digits.  ok = FALSE is the ValueError.
py_int(text) ==
    LET t == RStrip(LStrip(text))
        signed == t # <<>> /\ Head(t) \in {"-", "+"}
        ds == IF signed THEN Tail(t) ELSE t
        good == ds # <<>> /\ \A i \in 1 .. Len(ds) : IsDigit(ds[i])
    IN  IF ~good THEN [ok |-> FALSE, val |-> 0]
        ELSE [ok |-> TRUE,
              val |-> IF signed /\ Head(t) = "-" THEN 0 - DigitsValue(ds)
                      ELSE DigitsValue(ds)]

\* str(n) of an integer, as an f-string formats it.
RECURSIVE py_str(_)
py_str(n) ==
    IF n < 0 THEN <<"-">> \o py_str(0 - n)
    ELSE IF n < 10 THEN <<Digits[n + 1]>>
    ELSE py_str(n \div 10) \o <<Digits[(n % 10) + 1]>>

\* bytes.find(sub) from position i (1-based); 0 stands for Python's -1.
RECURSIVE FindFrom(_, _, _)
FindFrom(s, sub, i) ==
    IF i + Len(sub) - 1 > Len(s) THEN 0
    ELSE IF SubSeq(s, i, i + Len(sub) - 1) = sub THEN i
    ELSE FindFrom(s, sub, i + 1)

bytes_find(s, sub) == FindFrom(s, sub, 1)

\* str.split(sep)[0]: the text before the first occurrence of sep.
split_first(s, sep) ==
    LET i == bytes_find(s, sep)
    IN  IF i = 0 THEN s ELSE SubSeq(s, 1, i - 1)

\* str.split(' ', 2): at most two splits at single spaces, three parts.
split_sp2(s) ==
    LET i == bytes_find(s, <<"SP">>)
    IN  IF i = 0 THEN <<s>>
        ELSE LET rest == SubSeq(s, i + 1, Len(s))
                 j == bytes_find(rest, <<"SP">>)
             IN  IF j = 0 THEN <<SubSeq(s, 1, i - 1), rest>>
                 ELSE <<SubSeq(s, 1, i - 1), SubSeq(rest, 1, j - 1),
                        SubSeq(rest, j + 1, Len(rest))>>

\* bytes.decode(): strict UTF-8; FALSE is the UnicodeDecodeError.
decodes(s) == \A i \in 1 .. Len(s) : s[i] # "XX"

\* ------------------------------------------------------- the handler's data

\* self.headers.get(name, default)
headers_get(h, name, default) ==
    IF name \in DOMAIN h THEN h[name] ELSE default

\* int(self.headers.get('Content-Length', 0)): an absent header is int(0).
content_length_of(h) ==
    IF "Content-Length" \in DOMAIN h THEN py_int(h["Content-Length"])
    ELSE [ok |-> TRUE, val |-> 0]

\* self.rfile.read(n) can return: n bytes are there, or the stream has ended.
read_ready(stream, eof, n) == Len(stream) >= n \/ eof

\* A read that loses the last of the n bytes.
rfile_read_short(stream, n) ==
    IF Len(stream) >= n THEN SubSeq(stream, 1, n - 1) ELSE stream

\* self.rfile.read(n): the first n bytes, fewer when the stream ends first.
rfile_read(stream, n) ==
    IF Len(stream) >= n THEN SubSeq(stream, 1, n) ELSE stream

HeaderLine(name, val) == <<name, ":", "SP">> \o val \o CRLF

\* The request line and the headers string, the request's blank line included.
request_head(method, path, n, h) ==
    <<method, "SP", path, "SP", "HTTP/1.1">> \o CRLF
    \o HeaderLine("Host", <<"localhost">>)
    \o HeaderLine("Connection", <<"close">>)
    \o (IF n > 0 THEN HeaderLine("Content-Length", py_str(n)) ELSE <<>>)
    \o (IF headers_get(h, "Content-Type", <<>>) # <<>>
        THEN HeaderLine("Content-Type", h["Content-Type"]) ELSE <<>>)
    \o CRLF

\* http_request = request_line.encode() + headers.encode() + body
http_request(method, path, n, h, b) == request_head(method, path, n, h) \o b

\* The element of a one-element set.  The({e(x) : x \in {v}}) is e with x
\* bound to v, v evaluated once, as an assignment to a local evaluates its
\* right side once.
The(S) == CHOOSE y \in S : TRUE

ParseFails(e) == [exc |-> e, status |-> 0, body |-> <<>>]

\* A parse that takes a code that is no number for 200.
parse_code_default(status_parts, response_body) ==
    The({[exc |-> "",
          status |-> IF code.ok THEN code.val ELSE 200,
          body |-> response_body] :
            code \in {py_int(status_parts[2])}})

\* status_code = int(status_parts[1])
parse_code(status_parts, response_body) ==
    The({IF ~code.ok THEN ParseFails("ValueError")
         ELSE [exc |-> "", status |-> code.val, body |-> response_body] :
            code \in {py_int(status_parts[2])}})

\* status_parts = status_line.split(' ', 2); status_code = int(status_parts[1])
parse_status(status_line, response_body) ==
    The({IF Len(status_parts) < 2 THEN ParseFails("IndexError")
         ELSE parse_code(status_parts, response_body) :
            status_parts \in {split_sp2(status_line)}})

\* status_line = response_headers.split('\r\n')[0]
parse_head(head, response_body) ==
    The({parse_status(status_line, response_body) :
            status_line \in {split_first(head, CRLF)}})

\* response[:headers_end].decode() and response[headers_end + 4:]
parse_headers(resp, headers_end) ==
    The({IF ~decodes(head) THEN ParseFails("UnicodeDecodeError")
         ELSE parse_head(head, SubSeq(resp, headers_end + 4, Len(resp))) :
            head \in {SubSeq(resp, 1, headers_end - 1)}})

\* The backend response as the handler takes it apart.  exc = "" is success.
parse_response(resp) ==
    The({IF headers_end = 0 THEN ParseFails("Invalid HTTP response")
         ELSE parse_headers(resp, headers_end) :
            headers_end \in {bytes_find(resp, CRLF \o CRLF)}})

\* One entry of the handler's header buffer: the status line or a header.
Line(name, val) == [name |-> name, val |-> val]

\* send_response(code): the status line, then the Server and Date headers.
send_response(code) ==
    <<Line("status", py_str(code)), Line("Server", <<"BaseHTTP">>),
      Line("Date", <<"now">>)>>

relay_head(code, b) ==
    send_response(code)
    \o <<Line("Access-Control-Allow-Origin", <<"*">>),
         Line("Content-Type", <<"application/json">>),
         Line("Content-Length", py_str(Len(b)))>>

\* An except clause that answers 500.
error_head_500 ==
    send_response(500)
    \o <<Line("Content-Type", <<"application/json">>),
         Line("Access-Control-Allow-Origin", <<"*">>)>>

error_head ==
    send_response(502)
    \o <<Line("Content-Type", <<"application/json">>),
         Line("Access-Control-Allow-Origin", <<"*">>)>>

\* error_msg = f'{{"success": false, "error": "Proxy error: {str(e)}"}}'
error_msg(e) == <<"{\"success\": false, \"error\": \"Proxy error: ", e, "\"}">>

\* A preflight answer without the Allow-Methods header.
options_head_bare ==
    send_response(200)
    \o <<Line("Access-Control-Allow-Origin", <<"*">>),
         Line("Access-Control-Allow-Headers", <<"Content-Type">>)>>

options_head ==
    send_response(200)
    \o <<Line("Access-Control-Allow-Origin", <<"*">>),
         Line("Access-Control-Allow-Methods", <<"GET, POST, PUT, DELETE, OPTIONS">>),
         Line("Access-Control-Allow-Headers", <<"Content-Type">>)>>

\* What one write on the client connection carries.
HeadWrite(lines) == [kind |-> "head", lines |-> lines, bytes |-> <<>>]

BodyWrite(b) == [kind |-> "body", lines |-> <<>>, bytes |-> b]

\* ------------------------------------------------------------------ state

VARIABLES
    server,          \* "preflight", "binding", "serving", "stopped", "exit1"
    pathExists,      \* SOCKET_PATH names a listening socket right now
    portFree,        \* the TCP port can be bound
    conns,           \* the connections the backend socket has accepted
    pc,              \* where each handler thread is
    req,             \* the parsed inbound request of each handler
    clientOk,        \* the inbound client is still connected
    content_length,  \* proxy_request's local of that name
    body,            \* proxy_request's local of that name
    sock,            \* the handler's socket: an index into conns, 0 for none
    response,        \* the bytes accumulated by the recv loop
    response_body,   \* proxy_request's local of that name
    hbuf,            \* the handler's header buffer, not yet flushed
    exc,             \* str(e) of the exception proxy_request caught, "" for none
    clientRecv,      \* the writes the client has received, in order
    unhandled        \* an exception left the handler method

vars == <<server, pathExists, portFree, conns, pc, req, clientOk,
          content_length, body, sock, response, response_body, hbuf, exc,
          clientRecv, unhandled>>

NoRequest ==
    [method |-> "", path |-> "", headers |-> <<>>, stream |-> <<>>, eof |-> FALSE]

Init ==
    /\ server = "preflight"
    /\ pathExists \in BOOLEAN
    /\ portFree \in BOOLEAN
    /\ conns = <<>>
    /\ pc = [r \in Reqs |-> "idle"]
    /\ req = [r \in Reqs |-> NoRequest]
    /\ clientOk = [r \in Reqs |-> TRUE]
    /\ content_length = [r \in Reqs |-> 0]
    /\ body = [r \in Reqs |-> <<>>]
    /\ sock = [r \in Reqs |-> 0]
    /\ response = [r \in Reqs |-> <<>>]
    /\ response_body = [r \in Reqs |-> <<>>]
    /\ hbuf = [r \in Reqs |-> <<>>]
    /\ exc = [r \in Reqs |-> ""]
    /\ clientRecv = [r \in Reqs |-> <<>>]
    /\ unhandled = [r \in Reqs |-> FALSE]

\* ---------------------------------------------------------------- startup

\* if not os.path.exists(SOCKET_PATH): ... sys.exit(1)
\* A start with no look at the socket path.
PreflightSkipped ==
    /\ server = "preflight"
    /\ server' = "binding"
    /\ UNCHANGED <<pathExists, portFree, conns, pc, req, clientOk,
                   content_length, body, sock, response, response_body, hbuf, exc,
                   clientRecv, unhandled>>

Preflight ==
    /\ server = "preflight"
    /\ server' = (IF pathExists THEN "binding" ELSE "exit1")
    /\ UNCHANGED <<pathExists, portFree, conns, pc, req, clientOk,
                   content_length, body, sock, response, response_body, hbuf, exc,
                   clientRecv, unhandled>>

\* ThreadedHTTPServer(("", PORT), ...) binds and listens; an OSError from it is
\* caught by the module's except Exception, which exits with code 1.
Bind ==
    /\ server = "binding"
    /\ server' = (IF portFree THEN "serving" ELSE "exit1")
    /\ UNCHANGED <<pathExists, portFree, conns, pc, req, clientOk,
                   content_length, body, sock, response, response_body, hbuf, exc,
                   clientRecv, unhandled>>

\* KeyboardInterrupt in serve_forever: the accept loop ends.  Handler threads
\* already started run on.
Interrupt ==
    /\ server = "serving"
    /\ server' = "stopped"
    /\ UNCHANGED <<pathExists, portFree, conns, pc, req, clientOk,
                   content_length, body, sock, response, response_body, hbuf, exc,
                   clientRecv, unhandled>>

\* The process exit code, -1 while the process runs.
ExitCode == IF server = "exit1" THEN 1 ELSE IF server = "stopped" THEN 0 ELSE -1

\* ------------------------------------------------------------ environment

\* The backend's socket file appears or disappears (the browser starts or
\* stops).
PathChange ==
    /\ pathExists' = ~pathExists
    /\ UNCHANGED <<server, portFree, conns, pc, req, clientOk,
                   content_length, body, sock, response, response_body, hbuf, exc,
                   clientRecv, unhandled>>

\* The inbound client goes away: every later read or write on its connection
\* raises.
ClientDisconnect(r) ==
    /\ pc[r] \notin {"idle", "done"}
    /\ clientOk[r]
    /\ clientOk' = [clientOk EXCEPT ![r] = FALSE]
    /\ UNCHANGED <<server, pathExists, portFree, conns, pc, req,
                   content_length, body, sock, response, response_body, hbuf, exc,
                   clientRecv, unhandled>>

\* ------------------------------------------------------------ the listener

\* A server without the mix-in: one request is handled at a time.
RunsAlone(r) == \A q \in Reqs \ {r} : pc[q] \in {"idle", "done"}

\* The thread-per-request mix-in: a handler thread runs whatever the other
\* handlers are doing.
MayRun(r) == TRUE

\* serve_forever accepts a connection and starts a handler thread of its own
\* for it; the framework has parsed the request line and headers.  The loop
\* accepts one connection at a time: r is the r-th connection accepted.
Accept(r, requests) ==
    /\ server = "serving"
    /\ pc[r] = "idle"
    /\ \A q \in Reqs : q < r => pc[q] # "idle"
    /\ \E q \in requests : req' = [req EXCEPT ![r] = q]
    /\ pc' = [pc EXCEPT ![r] = "handle"]
    /\ UNCHANGED <<server, pathExists, portFree, conns, clientOk,
                   content_length, body, sock, response, response_body, hbuf, exc,
                   clientRecv, unhandled>>

\* ------------------------------------------------------------ the handler

\* A handler class that proxies every method the preflight answer allows.
IsAdvertised(m) == m \in {"GET", "POST", "PUT", "DELETE"}

\* The methods the class has a do_ method for that calls proxy_request.
IsProxied(m) == m \in {"GET", "POST"}

\* A handler with no except clause: the exception ends the request.
RaiseUncaught(r, e) ==
    /\ pc' = [pc EXCEPT ![r] = "done"]
    /\ exc' = [exc EXCEPT ![r] = e]

\* A handler that answers a failure by connecting again.
RaiseAndRetry(r, e) ==
    /\ pc' = [pc EXCEPT ![r] = "connect"]
    /\ exc' = [exc EXCEPT ![r] = e]

\* An exception raised inside proxy_request's try block: control goes to the
\* except clause with e bound.
Raise(r, e) ==
    /\ pc' = [pc EXCEPT ![r] = "error"]
    /\ exc' = [exc EXCEPT ![r] = e]

\* An exception out of a handler that takes the process down.
EscapeStopsServer(r) ==
    /\ pc' = [pc EXCEPT ![r] = "done"]
    /\ unhandled' = [unhandled EXCEPT ![r] = TRUE]
    /\ server' = "exit1"

\* An exception leaves the handler method: the handler thread reports it and
\* ends; serve_forever, in the main thread, goes on.
Escape(r) ==
    /\ pc' = [pc EXCEPT ![r] = "done"]
    /\ unhandled' = [unhandled EXCEPT ![r] = TRUE]
    /\ server' = server

\* end_headers() on a live client: the whole header buffer goes out in one
\* write and the buffer is emptied.
Flush(r, lines) ==
    /\ clientRecv' = [clientRecv EXCEPT ![r] = Append(@, HeadWrite(lines))]
    /\ hbuf' = [hbuf EXCEPT ![r] = <<>>]

\* end_headers() on a client that has gone: the write raises and the buffer
\* keeps its lines.
FlushFails(r, lines) ==
    /\ hbuf' = [hbuf EXCEPT ![r] = lines]
    /\ UNCHANGED clientRecv

\* do_OPTIONS
DoOptions(r) ==
    /\ MayRun(r)
    /\ pc[r] = "handle"
    /\ req[r].method = "OPTIONS"
    /\ IF clientOk[r]
       THEN /\ Flush(r, hbuf[r] \o options_head)
            /\ pc' = [pc EXCEPT ![r] = "done"]
            /\ UNCHANGED <<server, unhandled>>
       ELSE /\ FlushFails(r, hbuf[r] \o options_head)
            /\ Escape(r)
    /\ UNCHANGED <<pathExists, portFree, conns, req, clientOk,
                   content_length, body, sock, response, response_body, exc>>

\* A method the class defines no do_ method for: the framework answers 501.
Unsupported(r) ==
    /\ MayRun(r)
    /\ pc[r] = "handle"
    /\ ~IsProxied(req[r].method)
    /\ req[r].method # "OPTIONS"
    /\ IF clientOk[r]
       THEN /\ clientRecv' = [clientRecv EXCEPT ![r] =
                  @ \o <<HeadWrite(hbuf[r] \o send_response(501)),
                         BodyWrite(<<"Unsupported method">>)>>]
            /\ pc' = [pc EXCEPT ![r] = "done"]
            /\ UNCHANGED <<server, unhandled, hbuf>>
       ELSE /\ FlushFails(r, hbuf[r] \o send_response(501))
            /\ Escape(r)
    /\ UNCHANGED <<pathExists, portFree, conns, req, clientOk,
                   content_length, body, sock, response, response_body, exc>>

\* content_length = int(...); body = self.rfile.read(content_length) if
\* content_length > 0 else b''
ReadBody(r) ==
    /\ MayRun(r)
    /\ pc[r] = "handle"
    /\ IsProxied(req[r].method)
    /\ LET cl == content_length_of(req[r].headers)
       IN  IF ~cl.ok
           THEN /\ Raise(r, "ValueError")
                /\ UNCHANGED <<content_length, body>>
           ELSE /\ content_length' = [content_length EXCEPT ![r] = cl.val]
                /\ IF cl.val <= 0
                   THEN /\ body' = [body EXCEPT ![r] = <<>>]
                        /\ pc' = [pc EXCEPT ![r] = "connect"]
                        /\ UNCHANGED exc
                   ELSE IF ~clientOk[r]
                   THEN /\ Raise(r, "ConnectionResetError")
                        /\ UNCHANGED body
                   ELSE /\ read_ready(req[r].stream, req[r].eof, cl.val)
                        /\ body' = [body EXCEPT ![r] =
                               rfile_read(req[r].stream, cl.val)]
                        /\ pc' = [pc EXCEPT ![r] = "connect"]
                        /\ UNCHANGED exc
    /\ UNCHANGED <<server, pathExists, portFree, conns, req, clientOk, sock,
                   response, response_body, hbuf, clientRecv, unhandled>>

\* One socket, made by the first request and used by every later one.
cached_socket == IF conns = <<>> THEN Len(conns) + 1 ELSE Len(conns)

\* socket.socket(AF_UNIX, SOCK_STREAM): a socket of this call's own.
new_socket == Len(conns) + 1

\* The bytes of a sequence of writes, end to end.
RECURSIVE Flatten(_)
Flatten(chunks) ==
    IF chunks = <<>> THEN <<>> ELSE Head(chunks) \o Flatten(Tail(chunks))

\* A connection as the backend accepts it, with what the backend will do on
\* it: users are the handlers holding it, sent the bytes they sent, wrote all
\* the bytes the backend writes, pending those of them not yet received,
\* closed whether the proxy has closed its end.
NewConn(r, sc) ==
    [users |-> {r}, sent |-> <<>>, wrote |-> Flatten(sc.chunks),
     pending |-> sc.chunks, mode |-> sc.mode, closed |-> FALSE]

\* sock = socket.socket(...); sock.connect(SOCKET_PATH)
Connect(r, scripts) ==
    /\ MayRun(r)
    /\ pc[r] = "connect"
    /\ IF ~pathExists
       THEN /\ Raise(r, "FileNotFoundError")
            /\ UNCHANGED <<conns, sock>>
       ELSE /\ LET s == new_socket
               IN  /\ sock' = [sock EXCEPT ![r] = s]
                   /\ IF s > Len(conns)
                      THEN \E sc \in scripts :
                               conns' = Append(conns, NewConn(r, sc))
                      ELSE conns' = [conns EXCEPT ![s].users = @ \cup {r}]
            /\ pc' = [pc EXCEPT ![r] = "send"]
            /\ UNCHANGED exc
    /\ UNCHANGED <<server, pathExists, portFree, req, clientOk,
                   content_length, body, response, response_body, hbuf, clientRecv,
                   unhandled>>

\* sock.sendall(http_request)
Send(r) ==
    /\ MayRun(r)
    /\ pc[r] = "send"
    /\ IF conns[sock[r]].mode = "refuse"
       THEN /\ Raise(r, "BrokenPipeError")
            /\ UNCHANGED conns
       ELSE /\ conns' = [conns EXCEPT ![sock[r]].sent =
                   @ \o http_request(req[r].method, req[r].path,
                                     content_length[r], req[r].headers,
                                     body[r])]
            /\ pc' = [pc EXCEPT ![r] = "recv"]
            /\ UNCHANGED exc
    /\ UNCHANGED <<server, pathExists, portFree, req, clientOk,
                   content_length, body, sock, response, response_body, hbuf, clientRecv,
                   unhandled>>

\* What one sock.recv(4096) takes of the first chunk the backend wrote.
recv_size(chunk) == IF Len(chunk) < RecvBufSize THEN Len(chunk) ELSE RecvBufSize

\* A handler that takes what one recv gives for the whole response.
RecvOnce(r) ==
    /\ MayRun(r)
    /\ pc[r] = "recv"
    /\ conns[sock[r]].pending # <<>>
    /\ response' = [response EXCEPT ![r] = @ \o Head(conns[sock[r]].pending)]
    /\ conns' = [conns EXCEPT ![sock[r]].pending = Tail(@)]
    /\ pc' = [pc EXCEPT ![r] = "parse"]
    /\ UNCHANGED <<server, pathExists, portFree, req, clientOk,
                   content_length, body, sock, hbuf, clientRecv, unhandled,
                   response_body, exc>>

\* One turn of the loop: chunk = sock.recv(4096); if not chunk: break;
\* response += chunk
Recv(r) ==
    /\ MayRun(r)
    /\ pc[r] = "recv"
    /\ LET c == conns[sock[r]]
       IN  IF c.pending # <<>>
           THEN LET first == Head(c.pending)
                    n == recv_size(first)
                    rest == SubSeq(first, n + 1, Len(first))
                IN  /\ response' = [response EXCEPT ![r] =
                           @ \o SubSeq(first, 1, n)]
                    /\ conns' = [conns EXCEPT ![sock[r]].pending =
                           IF rest = <<>> THEN Tail(c.pending)
                           ELSE <<rest>> \o Tail(c.pending)]
                    /\ UNCHANGED <<pc, exc>>
           ELSE /\ c.mode \in {"close", "reset"}
                /\ IF c.mode = "close"
                   THEN /\ pc' = [pc EXCEPT ![r] = "parse"]
                        /\ UNCHANGED exc
                   ELSE Raise(r, "ConnectionResetError")
                /\ UNCHANGED <<response, response_body, conns>>
    /\ UNCHANGED <<server, pathExists, portFree, req, clientOk,
                   content_length, body, sock, hbuf, clientRecv, unhandled,
                   response_body>>

\* sock.close(), the parse of the response, and the status line and headers
\* of the relayed response up to end_headers().
Relay(r) ==
    /\ MayRun(r)
    /\ pc[r] = "parse"
    /\ conns' = [conns EXCEPT ![sock[r]].closed = TRUE]
    /\ \E p \in {parse_response(response[r])} :
          IF p.exc # ""
          THEN /\ Raise(r, p.exc)
               /\ UNCHANGED <<response_body, hbuf, clientRecv>>
          ELSE /\ response_body' = [response_body EXCEPT ![r] = p.body]
               /\ IF clientOk[r]
                  THEN /\ Flush(r, hbuf[r] \o relay_head(p.status, p.body))
                       /\ pc' = [pc EXCEPT ![r] = "body"]
                       /\ UNCHANGED exc
                  ELSE /\ FlushFails(r, hbuf[r] \o relay_head(p.status, p.body))
                       /\ Raise(r, "BrokenPipeError")
    /\ UNCHANGED <<server, pathExists, portFree, req, clientOk,
                   content_length, body, sock, response, unhandled>>

\* A handler that, the body written, reads the backend again.
WriteBodyAndReread(r) ==
    /\ MayRun(r)
    /\ pc[r] = "body"
    /\ clientOk[r]
    /\ clientRecv' = [clientRecv EXCEPT ![r] =
           Append(@, BodyWrite(response_body[r]))]
    /\ pc' = [pc EXCEPT ![r] = "recv"]
    /\ UNCHANGED <<server, pathExists, portFree, conns, req, clientOk,
                   content_length, body, sock, response, response_body, hbuf,
                   exc, unhandled>>

\* self.wfile.write(response_body)
WriteBody(r) ==
    /\ MayRun(r)
    /\ pc[r] = "body"
    /\ IF clientOk[r]
       THEN /\ clientRecv' = [clientRecv EXCEPT ![r] =
                  Append(@, BodyWrite(response_body[r]))]
            /\ pc' = [pc EXCEPT ![r] = "done"]
            /\ UNCHANGED exc
       ELSE /\ Raise(r, "BrokenPipeError")
            /\ UNCHANGED clientRecv
    /\ UNCHANGED <<server, pathExists, portFree, conns, req, clientOk,
                   content_length, body, sock, response, response_body, hbuf,
                   unhandled>>

\* The except clause up to end_headers(): error_msg, send_response(502), the
\* two headers.
ErrorHead(r) ==
    /\ MayRun(r)
    /\ pc[r] = "error"
    /\ IF clientOk[r]
       THEN /\ Flush(r, hbuf[r] \o error_head)
            /\ pc' = [pc EXCEPT ![r] = "errbody"]
            /\ UNCHANGED <<server, unhandled>>
       ELSE /\ FlushFails(r, hbuf[r] \o error_head)
            /\ Escape(r)
    /\ UNCHANGED <<pathExists, portFree, conns, req, clientOk,
                   content_length, body, sock, response, response_body, exc>>

\* self.wfile.write(error_msg.encode())
ErrorBody(r) ==
    /\ MayRun(r)
    /\ pc[r] = "errbody"
    /\ IF clientOk[r]
       THEN /\ clientRecv' = [clientRecv EXCEPT ![r] =
                  Append(@, BodyWrite(error_msg(exc[r])))]
            /\ pc' = [pc EXCEPT ![r] = "done"]
            /\ UNCHANGED <<server, unhandled>>
       ELSE /\ Escape(r)
            /\ UNCHANGED clientRecv
    /\ UNCHANGED <<pathExists, portFree, conns, req, clientOk,
                   content_length, body, sock, response, response_body, hbuf, exc>>

\* proxy_request has returned with its socket never closed: the socket object
\* is garbage.  Its descriptor is closed when the interpreter reclaims the
\* object: at once where objects are reference counted, at some later
\* collection, or never, elsewhere.
Finalize(r) ==
    /\ pc[r] = "done"
    /\ sock[r] # 0
    /\ ~conns[sock[r]].closed
    /\ conns' = [conns EXCEPT ![sock[r]].closed = TRUE]
    /\ UNCHANGED <<server, pathExists, portFree, pc, req, clientOk,
                   content_length, body, sock, response, response_body, hbuf,
                   exc, clientRecv, unhandled>>

\* The steps of proxy_request.
Proxy(r, scripts) ==
    \/ ReadBody(r)
    \/ Connect(r, scripts)
    \/ Send(r)
    \/ Recv(r)
    \/ Relay(r)
    \/ WriteBody(r)
    \/ ErrorHead(r)
    \/ ErrorBody(r)

\* Every step a handler thread takes.
Handler(r, scripts) ==
    \/ DoOptions(r)
    \/ Unsupported(r)
    \/ Proxy(r, scripts)

\* ----------------------------------------------------------------- inputs

Request(m, p, h, b, e) ==
    [method |-> m, path |-> p, headers |-> h, stream |-> b, eof |-> e]

Script(chunks, mode) == [chunks |-> chunks, mode |-> mode]

JsonType == <<"application/json">>

OnlyLength(v) == [n \in {"Content-Length"} |-> v]

GetRequest == Request("GET", "/p", <<>>, <<>>, FALSE)

PostRequest ==
    Request("POST", "/p",
            [n \in {"Content-Length", "Content-Type"} |->
                IF n = "Content-Length" THEN <<"1">> ELSE JsonType],
            <<"a">>, FALSE)

\* A POST whose Content-Length is no number.
BadLengthRequest == Request("POST", "/p", OnlyLength(<<"x">>), <<>>, FALSE)

\* A POST whose client declares two bytes, sends one and ends the stream.
ShortRequest == Request("POST", "/p", OnlyLength(<<"2">>), <<"a">>, TRUE)

\* A POST whose client declares one byte, sends nothing and waits.
StallRequest == Request("POST", "/p", OnlyLength(<<"1">>), <<>>, FALSE)

OptionsRequest == Request("OPTIONS", "/p", <<>>, <<>>, FALSE)

PutRequest == Request("PUT", "/p", <<>>, <<>>, FALSE)

DeleteRequest == Request("DELETE", "/p", <<>>, <<>>, FALSE)

\* A 200 with a one-byte body; the separator straddles the backend's two
\* writes.
OkScript ==
    Script(<< <<"H", "SP", "2", "0", "0", "CR">>, <<"LF", "CR", "LF", "a">> >>,
           "close")

\* A 404 with another one-byte body, in one write.
NotFoundScript ==
    Script(<< <<"H", "SP", "4", "0", "4", "CR", "LF", "CR", "LF", "b">> >>,
           "close")

\* A reply with no blank line, then end of stream.
NoSepScript == Script(<< <<"H", "SP", "2", "0", "0", "a">> >>, "close")

\* A backend that neither answers nor closes.
HangScript == Script(<<>>, "hang")

\* A backend that sends a whole reply, with the length of its body declared,
\* and keeps the connection open.
KeepAliveScript ==
    Script(<< <<"H", "SP", "2", "0", "0", "CR", "LF",
                "Content-Length", ":", "SP", "1", "CR", "LF", "CR", "LF",
                "a">> >>, "hang")

\* A backend that resets the connection after one byte.
ResetScript == Script(<< <<"H">> >>, "reset")

\* A backend that closes before it reads the request.
RefuseScript == Script(<<>>, "refuse")

\* Every byte string over the alphabet of length at most n.
BytesUpTo(alphabet, n) == UNION {[1 .. k -> alphabet] : k \in 0 .. n}

\* Content-Length values: the lengths a body can have and one more, a value
\* with a leading zero, a negative one, one that is no number, an empty one.
LengthValues ==
    {py_str(k) : k \in 0 .. MaxBody + 1}
        \cup {<<"0", "2">>, <<"-", "1">>, <<"x">>, <<>>}

TypeValues == {JsonType, <<>>}

HeaderNames == {"Content-Length", "Content-Type", "Authorization"}

\* The inbound header mappings: any of the three headers present or absent.
RichHeaders ==
    {h \in UNION {[D -> LengthValues \cup TypeValues \cup {<<"secret">>}] :
                      D \in SUBSET HeaderNames} :
        /\ "Content-Length" \in DOMAIN h => h["Content-Length"] \in LengthValues
        /\ "Content-Type" \in DOMAIN h => h["Content-Type"] \in TypeValues
        /\ "Authorization" \in DOMAIN h => h["Authorization"] = <<"secret">>}

\* The requests of the request-side specification.
RichRequests ==
    {Request(m, p, h, b, e) :
        m \in {"GET", "POST"}, p \in {"/p", "/q"}, h \in RichHeaders,
        b \in BytesUpTo({"a", "LF"}, MaxBody), e \in BOOLEAN}

\* Header blocks a backend may send: well-formed status lines (with a reason,
\* with a reason of two words, with none, followed by a header line, followed
\* by a header line holding a byte that is not UTF-8, ending in a bare LF) and
\* malformed ones (no space, a code that is no number, two spaces, nothing).
RespHeads ==
    { <<"H", "SP", "2", "0", "0", "SP", "K">>,
      <<"H", "SP", "4", "0", "4", "SP", "K", "SP", "K">>,
      <<"H", "SP", "2", "0", "0">>,
      <<"H", "SP", "2", "0", "0", "SP", "K", "CR", "LF", "K", ":", "SP", "5">>,
      <<"H", "SP", "2", "0", "0", "SP", "K", "CR", "LF", "K", ":", "SP", "XX">>,
      <<"H", "SP", "2", "0", "0", "LF">>,
      <<"H">>,
      <<"H", "SP", "K", "SP", "K">>,
      <<"H", "SP", "SP", "2", "0", "0">>,
      <<>> }

\* What follows the header block: the blank line, nothing, two blank lines,
\* bare line feeds.
RespSeps == {CRLF \o CRLF, <<>>, CRLF \o CRLF \o CRLF \o CRLF, <<"LF", "LF">>}

RespBodies == BytesUpTo({"a", "LF"}, MaxRespBody)

\* The backends of the response-side specification: the bytes in one write,
\* then end of stream.
RichScripts ==
    {Script(IF d = <<>> THEN <<>> ELSE <<d>>, "close") :
        d \in {h \o s \o b : h \in RespHeads, s \in RespSeps, b \in RespBodies}}

\* ---------------------------------------------------------- specifications

\* The concurrent proxy: NumReq handler threads at once.
ConcRequests == {GetRequest, BadLengthRequest, OptionsRequest, PutRequest}

ConcScripts == {OkScript, NoSepScript, HangScript}

Next ==
    \/ Preflight
    \/ Bind
    \/ PathChange
    \/ \E r \in Reqs : Accept(r, ConcRequests)
    \/ \E r \in Reqs : Handler(r, ConcScripts)
    \/ \E r \in Reqs : ClientDisconnect(r)

Spec == Init /\ [][Next]_vars

\* The concurrent proxy with live clients and a socket file that stays, each
\* handler a thread of its own that the operating system schedules: a step a
\* handler can take is taken.
LiveNext ==
    \/ Preflight
    \/ Bind
    \/ \E r \in Reqs : Accept(r, {GetRequest})
    \/ \E r \in Reqs : Proxy(r, ConcScripts)

LiveSpec ==
    Init /\ [][LiveNext]_vars /\ \A r \in Reqs : WF_vars(Proxy(r, ConcScripts))

\* Concurrent GETs of the same path whose backend connections carry replies
\* that differ.
PairScripts == {OkScript, NotFoundScript}

PairNext ==
    \/ Preflight
    \/ Bind
    \/ PathChange
    \/ \E r \in Reqs : Accept(r, {GetRequest})
    \/ \E r \in Reqs : Proxy(r, PairScripts)
    \/ \E r \in Reqs : ClientDisconnect(r)

PairSpec == Init /\ [][PairNext]_vars

\* One request, with every kind of request and of backend.
OneRequests ==
    {GetRequest, PostRequest, BadLengthRequest, ShortRequest, StallRequest,
     OptionsRequest, PutRequest, DeleteRequest}

OneScripts ==
    {OkScript, NoSepScript, HangScript, ResetScript, RefuseScript,
     KeepAliveScript}

OneNext ==
    \/ Preflight
    \/ Bind
    \/ Interrupt
    \/ PathChange
    \/ Accept(1, OneRequests)
    \/ Handler(1, OneScripts)
    \/ ClientDisconnect(1)
    \/ Finalize(1)

OneSpec == Init /\ [][OneNext]_vars

\* One request, its handler thread scheduled fairly.
OneFairSpec == OneSpec /\ WF_vars(Handler(1, OneScripts))

\* One proxied request out of all the request shapes.
ReqNext ==
    \/ Preflight
    \/ Bind
    \/ Accept(1, RichRequests)
    \/ Proxy(1, {OkScript})
    \/ ClientDisconnect(1)

ReqSpec == Init /\ [][ReqNext]_vars

\* One proxied request against all the backend replies.
RespNext ==
    \/ Preflight
    \/ Bind
    \/ Accept(1, {GetRequest})
    \/ Proxy(1, RichScripts)
    \/ ClientDisconnect(1)

RespSpec == Init /\ [][RespNext]_vars

\* ------------------------------------------------- what the claims speak of

\* The blank line CR LF CR LF starts at position i of d.
SepAt(d, i) ==
    /\ i >= 1
    /\ i + 3 <= Len(d)
    /\ d[i] = "CR" /\ d[i + 1] = "LF" /\ d[i + 2] = "CR" /\ d[i + 3] = "LF"

HasSep(d) == \E i \in 1 .. Len(d) : SepAt(d, i)

\* Where the first blank line of d starts.
FirstSep(d) ==
    CHOOSE i \in 1 .. Len(d) : SepAt(d, i) /\ \A j \in 1 .. i - 1 : ~SepAt(d, j)

BeforeSep(d) == SubSeq(d, 1, FirstSep(d) - 1)

AfterSep(d) == SubSeq(d, FirstSep(d) + 4, Len(d))

\* The lines of a header block, split at each CR LF.
RECURSIVE LinesOf(_)
LinesOf(s) ==
    IF \E i \in 1 .. Len(s) - 1 : s[i] = "CR" /\ s[i + 1] = "LF"
    THEN LET i == CHOOSE k \in 1 .. Len(s) - 1 :
                      /\ s[k] = "CR" /\ s[k + 1] = "LF"
                      /\ \A j \in 1 .. k - 1 : ~(s[j] = "CR" /\ s[j + 1] = "LF")
         IN  <<SubSeq(s, 1, i - 1)>> \o LinesOf(SubSeq(s, i + 2, Len(s)))
    ELSE <<s>>

\* The code a status line carries: a version with no space in it, one space,
\* the digits of the code, then nothing or a space and the reason.  The set is
\* empty when l is no status line.
StatusLineCodes(l) ==
    {DigitsValue(SubSeq(l, ij[1] + 1, ij[2] - 1)) :
        ij \in {x \in (2 .. Len(l)) \X (4 .. Len(l) + 1) :
                   /\ x[2] >= x[1] + 2
                   /\ l[x[1]] = "SP"
                   /\ \A k \in 1 .. x[1] - 1 : l[k] # "SP"
                   /\ \A k \in x[1] + 1 .. x[2] - 1 : IsDigit(l[k])
                   /\ x[2] = Len(l) + 1 \/ l[x[2]] = "SP"}}

\* The connections handler r has held.
ConnsOf(r) == {i \in DOMAIN conns : r \in conns[i].users}

\* The backend connection of r has delivered all its bytes and closed, and r
\* has read them all.
BackendClosed(r) ==
    /\ sock[r] # 0
    /\ conns[sock[r]].mode = "close"
    /\ conns[sock[r]].pending = <<>>
    /\ pc[r] \notin {"send", "recv"}

\* The writes the client of r received form one response: a head with one
\* status line, first, and then at most one body.
HeadOf(r) == clientRecv[r][1].lines

StatusLines(lines) == {i \in DOMAIN lines : lines[i].name = "status"}

OneResponse(r) ==
    /\ Len(clientRecv[r]) \in {1, 2}
    /\ clientRecv[r][1].kind = "head"
    /\ StatusLines(HeadOf(r)) = {1}
    /\ Len(clientRecv[r]) = 2 => clientRecv[r][2].kind = "body"

\* The body the client of r received, empty when no body was written.
BodyOf(r) ==
    IF Len(clientRecv[r]) = 2 THEN clientRecv[r][2].bytes ELSE <<>>

HasHeader(lines, name, val) ==
    \E i \in DOMAIN lines : lines[i].name = name /\ lines[i].val = val

\* The client of r received one response with status c.
Responded(r, c) == OneResponse(r) /\ HeadOf(r)[1].val = py_str(c)

\* The 502 of the failure path.
Is502(r) ==
    /\ Responded(r, 502)
    /\ HasHeader(HeadOf(r), "Content-Type", <<"application/json">>)
    /\ HasHeader(HeadOf(r), "Access-Control-Allow-Origin", <<"*">>)
    /\ Len(clientRecv[r]) = 2
    /\ Len(BodyOf(r)) = 3
    /\ BodyOf(r)[1] = "{\"success\": false, \"error\": \"Proxy error: "
    /\ BodyOf(r)[3] = "\"}"

\* The request of r is done and its client was there to the end.
Served(r) == pc[r] = "done" /\ clientOk[r]

\* ------------------------------------------------------------------ claims

\* What the backend of r wrote on r's connection.
Wrote(r) == conns[sock[r]].wrote

\* C1: when the backend of a GET or POST delivers bytes and closes, and the
\* bytes before the first blank line start with a status line carrying code c,
\* the client receives status c, the bytes after that blank line as the body,
\* a Content-Length of that body's length and Access-Control-Allow-Origin: *.
C1_RelaysStatusAndBody ==
    \A r \in Reqs :
        (IsProxied(req[r].method) /\ Served(r) /\ BackendClosed(r)
            /\ HasSep(Wrote(r)))
        => \A c \in StatusLineCodes(LinesOf(BeforeSep(Wrote(r)))[1]) :
               /\ Responded(r, c)
               /\ Len(clientRecv[r]) = 2
               /\ BodyOf(r) = AfterSep(Wrote(r))
               /\ HasHeader(HeadOf(r), "Content-Length",
                            py_str(Len(AfterSep(Wrote(r)))))
               /\ HasHeader(HeadOf(r), "Access-Control-Allow-Origin", <<"*">>)

\* The relay of C1 for the replies whose header block is valid UTF-8.
RelaysDecodable ==
    \A r \in Reqs :
        (IsProxied(req[r].method) /\ Served(r) /\ BackendClosed(r)
            /\ HasSep(Wrote(r)) /\ decodes(BeforeSep(Wrote(r))))
        => \A c \in StatusLineCodes(LinesOf(BeforeSep(Wrote(r)))[1]) :
               /\ Responded(r, c)
               /\ Len(clientRecv[r]) = 2
               /\ BodyOf(r) = AfterSep(Wrote(r))
               /\ HasHeader(HeadOf(r), "Content-Length",
                            py_str(Len(AfterSep(Wrote(r)))))
               /\ HasHeader(HeadOf(r), "Access-Control-Allow-Origin", <<"*">>)

\* The request is well framed: its Content-Length, one or more digits, is the
\* length of the body the client sends, or it has neither.
ValidRequest(q) ==
    IF "Content-Length" \in DOMAIN q.headers
    THEN LET v == q.headers["Content-Length"]
         IN  /\ v # <<>>
             /\ \A i \in 1 .. Len(v) : IsDigit(v[i])
             /\ DigitsValue(v) = Len(q.stream)
    ELSE q.stream = <<>>

\* C2: for a valid GET or POST with a body of length L, the bytes sent to the
\* backend after the blank line of the reconstructed request are the client's
\* body, L bytes, byte for byte.
C2_BodyForwardedIntact ==
    \A r \in Reqs :
        (IsProxied(req[r].method) /\ ValidRequest(req[r]) /\ sock[r] # 0
            /\ conns[sock[r]].sent # <<>>)
        => /\ HasSep(conns[sock[r]].sent)
           /\ AfterSep(conns[sock[r]].sent) = req[r].stream
           /\ Len(AfterSep(conns[sock[r]].sent)) = Len(req[r].stream)

\* A valid POST with a two-byte body, one of them a line feed, was sent on.
C2_Witness ==
    \E r \in Reqs :
        /\ req[r].method = "POST" /\ ValidRequest(req[r])
        /\ Len(req[r].stream) = 2 /\ req[r].stream[1] = "LF"
        /\ sock[r] # 0 /\ conns[sock[r]].sent # <<>>

\* C3: an OPTIONS request never opens a backend connection and is answered 200
\* with the three fixed CORS headers and no body, whatever the state of the
\* backend socket.
C3_OptionsAnsweredLocally ==
    \A r \in Reqs :
        req[r].method = "OPTIONS"
        => /\ sock[r] = 0
           /\ ConnsOf(r) = {}
           /\ Served(r)
              => /\ Responded(r, 200)
                 /\ Len(clientRecv[r]) = 1
                 /\ HasHeader(HeadOf(r), "Access-Control-Allow-Origin", <<"*">>)
                 /\ HasHeader(HeadOf(r), "Access-Control-Allow-Methods",
                              <<"GET, POST, PUT, DELETE, OPTIONS">>)
                 /\ HasHeader(HeadOf(r), "Access-Control-Allow-Headers",
                              <<"Content-Type">>)

\* A preflight was answered while the socket file was gone.
C3_Witness ==
    \E r \in Reqs :
        /\ req[r].method = "OPTIONS" /\ Served(r) /\ Responded(r, 200)
        /\ ~pathExists

\* C4, as a state predicate: a GET or POST that met an error in steps 1-6 ends
\* with the 502 JSON response; so, in particular, does one whose backend
\* replied with no blank line.
ErrorsAre502 ==
    \A r \in Reqs :
        (IsProxied(req[r].method) /\ Served(r))
        => /\ exc[r] # "" => Is502(r) /\ BodyOf(r)[2] = exc[r]
           /\ (BackendClosed(r) /\ ~HasSep(Wrote(r))) => Is502(r)

\* C4, as a step: a connect while the socket path is unreachable raises, and
\* so does a parse of a reply with no blank line.
ErrorsAreRaised ==
    \A r \in Reqs :
        /\ (pc[r] = "connect" /\ ~pathExists /\ pc'[r] # pc[r])
           => pc'[r] = "error" /\ exc'[r] # ""
        /\ (pc[r] = "parse" /\ ~HasSep(response[r]) /\ pc'[r] # pc[r])
           => pc'[r] = "error" /\ exc'[r] # ""
        /\ (pc[r] = "error" /\ exc[r] # "" /\ pc'[r] # pc[r] /\ clientOk[r])
           => pc'[r] = "errbody"

\* C4: any error during steps 1-6 of a GET or POST results in the 502 JSON
\* response with Content-Type: application/json and
\* Access-Control-Allow-Origin: *; an unreachable socket path and a reply with
\* no blank line both do.
C4_ErrorsBecome502 == [](ErrorsAre502) /\ [][ErrorsAreRaised]_vars

\* A request whose connect found no socket ended with the 502.
C4_Witness ==
    \E r \in Reqs :
        /\ Served(r) /\ exc[r] = "FileNotFoundError" /\ Is502(r)

\* C5, as first stated: every request that is done made exactly one backend
\* connection, and no connection served more than one request.
C5_ExactlyOneConnection ==
    /\ \A r \in Reqs : pc[r] = "done" => Cardinality(ConnsOf(r)) = 1
    /\ \A i \in DOMAIN conns : Cardinality(conns[i].users) <= 1

\* C5: a request makes at most one backend connection: exactly one once its
\* connect has succeeded, none for an OPTIONS or unsupported request, for a
\* Content-Length that is no number and for a connect that failed.  No
\* connection is used by more than one request, so the same request issued
\* twice gets two connections of its own.
C5_OneConnectionPerProxiedRequest ==
    /\ \A r \in Reqs :
          /\ ConnsOf(r) = (IF sock[r] # 0 THEN {sock[r]} ELSE {})
          /\ pc[r] \in {"send", "recv", "parse", "body"} => sock[r] # 0
          /\ (Served(r) /\ IsProxied(req[r].method)
                /\ exc[r] \notin {"ValueError", "FileNotFoundError"})
             => sock[r] # 0
          /\ (pc[r] # "idle" /\ ~IsProxied(req[r].method)) => sock[r] = 0
          /\ (pc[r] # "idle" /\ ~content_length_of(req[r].headers).ok)
             => sock[r] = 0
          /\ exc[r] = "FileNotFoundError" => sock[r] = 0
    /\ \A i \in DOMAIN conns : Cardinality(conns[i].users) = 1
    /\ \A r, q \in Reqs :
          (r # q /\ sock[r] # 0 /\ sock[q] # 0) => sock[r] # sock[q]

\* The same GET was issued twice and relayed over two connections.
C5_Witness ==
    \E r, q \in Reqs :
        /\ r # q /\ req[r] = req[q] /\ IsProxied(req[r].method)
        /\ Served(r) /\ Served(q)
        /\ Responded(r, 200) /\ Responded(q, 200)
        /\ sock[r] # 0 /\ sock[q] # 0 /\ sock[r] # sock[q]

\* The backend of r neither answers nor closes.
BackendHangs(r) == sock[r] # 0 /\ conns[sock[r]].mode = "hang"

\* C6: while one handler waits on a backend that never closes, every other
\* accepted request whose own backend completes reaches completion; the
\* unresponsive backend holds only the handler talking to it.
C6_HandlersRunIndependently ==
    \A r \in Reqs :
        [](pc[r] # "idle" => <>(pc[r] = "done" \/ BackendHangs(r)))

\* One request is done while another waits on a backend that hangs.
C6_Witness ==
    \E r, q \in Reqs :
        /\ pc[r] = "recv" /\ BackendHangs(r)
        /\ sock[q] # 0 /\ conns[sock[q]].mode = "close" /\ Served(q)
        /\ q > r

\* C7, as a step: a step of a handler leaves the server as it is, and the
\* process exits with an error only out of its startup.
ServerOutlivesHandlers ==
    /\ (pc' # pc \/ exc' # exc \/ unhandled' # unhandled \/ conns' # conns
          \/ clientRecv' # clientRecv \/ clientOk' # clientOk)
       => server' = server
    /\ (server' = "exit1" /\ server # "exit1")
       => server \in {"preflight", "binding"}

\* C7, as a state predicate: whatever the requests so far did, a serving
\* server accepts the next one.
StillAccepting ==
    (server = "serving" /\ \E r \in Reqs : pc[r] = "idle")
    => ENABLED (\E r \in Reqs : Accept(r, ConcRequests))

\* C7: no request's failure stops the listening loop: after any sequence of
\* requests, failed ones included, the server still accepts and serves; only
\* a startup error is fatal.
C7_FailuresDoNotStopServer ==
    [](StillAccepting) /\ [][ServerOutlivesHandlers]_vars

\* After a request that failed with an exception nobody caught and one that
\* was answered 502, the server serves.
C7_Witness ==
    /\ server = "serving"
    /\ \E r, q \in Reqs :
          /\ pc[r] = "done" /\ unhandled[r]
          /\ Served(q) /\ Is502(q)

\* The client of r declared more bytes than it has sent and keeps the
\* connection open.
ClientStalls(r) ==
    /\ pc[r] = "handle"
    /\ content_length_of(req[r].headers).ok
    /\ ~read_ready(req[r].stream, req[r].eof,
                   content_length_of(req[r].headers).val)

\* The client of r has the relayed backend response.
Relayed(r) ==
    /\ OneResponse(r)
    /\ Len(clientRecv[r]) = 2
    /\ BackendClosed(r) /\ HasSep(Wrote(r))
    /\ BodyOf(r) = AfterSep(Wrote(r))
    /\ HeadOf(r)[1].val
          \in {py_str(c) : c \in StatusLineCodes(LinesOf(BeforeSep(Wrote(r)))[1])}

\* C8: every accepted GET or POST whose backend fails or closes ends with its
\* client having the relayed response or the 502 JSON error, as long as the
\* client sends what it declared and stays connected.
C8_ClientGetsResponse ==
    \A r \in Reqs :
        (pc[r] # "idle" /\ IsProxied(req[r].method))
        ~> \/ pc[r] = "done" /\ (Relayed(r) \/ Is502(r))
           \/ BackendHangs(r)
           \/ ClientStalls(r)
           \/ ~clientOk[r]

\* A request whose backend reset the connection ended with the 502.
C8_Witness ==
    \E r \in Reqs :
        /\ Served(r) /\ sock[r] # 0 /\ conns[sock[r]].mode = "reset"
        /\ Is502(r)

\* C9, as a state predicate: a process that exited with an error exited with
\* code 1 and served nothing; a request that found no socket got the 502.
FailedStartServesNothing ==
    /\ server = "exit1"
       => /\ ExitCode = 1
          /\ \A r \in Reqs : pc[r] = "idle" /\ clientRecv[r] = <<>>
    /\ \A r \in Reqs :
          (Served(r) /\ exc[r] = "FileNotFoundError") => Is502(r)

\* C9, as a step: the start fails on a missing socket path and on a port that
\* cannot be bound; once serving, the path's coming and going leaves the
\* server serving, and a connect without the path raises.
StartupChecksOnce ==
    /\ (server = "preflight" /\ server' # server)
       => server' = (IF pathExists THEN "binding" ELSE "exit1")
    /\ (server = "binding" /\ server' # server)
       => server' = (IF portFree THEN "serving" ELSE "exit1")
    /\ (server = "serving" /\ pathExists' # pathExists) => server' = "serving"
    /\ \A r \in Reqs :
          (pc[r] = "connect" /\ ~pathExists /\ pc'[r] # pc[r])
          => exc'[r] = "FileNotFoundError"

\* C9: the start fails fast, with exit code 1 and before any request, when
\* the socket path is missing or the port cannot be bound; the path is looked
\* at once, so its disappearing later leaves the server up and gives the
\* affected requests a 502.
C9_StartupFailsFast ==
    [](FailedStartServesNothing) /\ [][StartupChecksOnce]_vars

\* The path went away after the start; the server serves and answered a
\* request with the 502.
C9_Witness ==
    /\ server = "serving" /\ ~pathExists
    /\ \E r \in Reqs :
          Served(r) /\ exc[r] = "FileNotFoundError" /\ Is502(r)

\* The header lines of the request sent on the connection of r.
SentLines(r) == LinesOf(BeforeSep(conns[sock[r]].sent))

SentHeaders(r) == {SentLines(r)[i] : i \in 2 .. Len(SentLines(r))}

SentWith(r, name) ==
    {l \in SentHeaders(r) : Len(l) >= 3 /\ SubSeq(l, 1, 3) = <<name, ":", "SP">>}

\* C10: the request sent to the backend has the inbound method and path,
\* Host: localhost, Connection: close and, when the inbound request has them,
\* Content-Length and Content-Type with the inbound values, and no other
\* header.
C10_ForwardsLengthAndType ==
    \A r \in Reqs :
        (sock[r] # 0 /\ conns[sock[r]].sent # <<>>)
        => /\ SentLines(r)[1]
                 = <<req[r].method, "SP", req[r].path, "SP", "HTTP/1.1">>
           /\ SentWith(r, "Host") = {<<"Host", ":", "SP", "localhost">>}
           /\ SentWith(r, "Connection") = {<<"Connection", ":", "SP", "close">>}
           /\ SentWith(r, "Content-Length") =
                 (IF "Content-Length" \in DOMAIN req[r].headers
                  THEN {<<"Content-Length", ":", "SP">>
                           \o req[r].headers["Content-Length"]}
                  ELSE {})
           /\ SentWith(r, "Content-Type") =
                 (IF "Content-Type" \in DOMAIN req[r].headers
                  THEN {<<"Content-Type", ":", "SP">>
                           \o req[r].headers["Content-Type"]}
                  ELSE {})
           /\ SentHeaders(r) = UNION {SentWith(r, n) :
                 n \in {"Host", "Connection", "Content-Length", "Content-Type"}}

\* What the code forwards: Content-Length when it is a positive number, as
\* that number's decimal digits; Content-Type when it is not empty.
ForwardsPositiveLengthAndType ==
    \A r \in Reqs :
        (sock[r] # 0 /\ conns[sock[r]].sent # <<>>)
        => /\ SentLines(r)[1]
                 = <<req[r].method, "SP", req[r].path, "SP", "HTTP/1.1">>
           /\ SentWith(r, "Host") = {<<"Host", ":", "SP", "localhost">>}
           /\ SentWith(r, "Connection") = {<<"Connection", ":", "SP", "close">>}
           /\ SentWith(r, "Content-Length") =
                 (IF content_length_of(req[r].headers).val > 0
                  THEN {<<"Content-Length", ":", "SP">>
                           \o py_str(content_length_of(req[r].headers).val)}
                  ELSE {})
           /\ SentWith(r, "Content-Type") =
                 (IF headers_get(req[r].headers, "Content-Type", <<>>) # <<>>
                  THEN {<<"Content-Type", ":", "SP">>
                           \o req[r].headers["Content-Type"]}
                  ELSE {})
           /\ SentHeaders(r) = UNION {SentWith(r, n) :
                 n \in {"Host", "Connection", "Content-Length", "Content-Type"}}
           /\ Len(SentLines(r)) = 1 + Cardinality(SentHeaders(r))

\* The values of the header name among the lines of a response head.
HeaderValues(lines, name) ==
    {lines[i].val : i \in {j \in DOMAIN lines : lines[j].name = name}}

\* C11: on both legs the body's length is the declared Content-Length: when
\* the request sent to the backend declares N, N body bytes follow its blank
\* line, also when the client delivered fewer bytes than it declared; when the
\* response to the client declares M, M body bytes follow.
C11_BodyLengthMatchesDeclared ==
    \A r \in Reqs :
        /\ (sock[r] # 0 /\ conns[sock[r]].sent # <<>>)
           => \A l \in SentWith(r, "Content-Length") :
                 DigitsValue(SubSeq(l, 4, Len(l)))
                     = Len(AfterSep(conns[sock[r]].sent))
        /\ (Served(r) /\ clientRecv[r] # <<>>)
           => \A v \in HeaderValues(HeadOf(r), "Content-Length") :
                 DigitsValue(v) = Len(BodyOf(r))

\* The length matches on the request leg when the client delivers what it
\* declared, and always on the response leg.
LengthMatchesForFullBodies ==
    \A r \in Reqs :
        /\ (sock[r] # 0 /\ conns[sock[r]].sent # <<>>
              /\ Len(req[r].stream) >= content_length[r])
           => \A l \in SentWith(r, "Content-Length") :
                 DigitsValue(SubSeq(l, 4, Len(l)))
                     = Len(AfterSep(conns[sock[r]].sent))
        /\ (Served(r) /\ clientRecv[r] # <<>>)
           => \A v \in HeaderValues(HeadOf(r), "Content-Length") :
                 DigitsValue(v) = Len(BodyOf(r))

\* The client of r declared a positive Content-Length and ended its stream
\* short of it.
EndsShort(q) ==
    /\ content_length_of(q.headers).ok
    /\ content_length_of(q.headers).val > 0
    /\ q.eof
    /\ Len(q.stream) < content_length_of(q.headers).val

\* C13: when the client declares Content-Length N > 0 and its stream ends
\* after fewer than N body bytes, nothing is forwarded to the backend and the
\* client gets the 502 JSON error.
C13_ShortBodyIs502 ==
    \A r \in Reqs :
        (pc[r] # "idle" /\ IsProxied(req[r].method) /\ EndsShort(req[r]))
        => /\ sock[r] # 0 => conns[sock[r]].sent = <<>>
           /\ Served(r) => Is502(r)

\* The bytes handler r has sent to the backend.
SentBy(r) == IF sock[r] = 0 THEN <<>> ELSE conns[sock[r]].sent

\* C12, as a state predicate: what a request has sent to the backend is
\* nothing or the reconstructed request, once.
SendsAtMostOnce ==
    \A r \in Reqs :
        pc[r] # "idle"
        => SentBy(r) \in {<<>>,
                          http_request(req[r].method, req[r].path,
                                       content_length[r], req[r].headers,
                                       body[r])}

\* C12, as a step: connect is attempted once, out of the read of the request,
\* and send once, out of the connect; once the request has failed its handler
\* connects and sends no more, and what it writes to the client next is the
\* 502 head and then the 502 body.
NoSecondAttempt ==
    \A r \in Reqs :
        /\ (pc'[r] = "connect" /\ pc[r] # "connect") => pc[r] = "handle"
        /\ (pc'[r] = "send" /\ pc[r] # "send") => pc[r] = "connect"
        /\ (pc[r] = "connect" /\ pc'[r] # "connect")
           => pc'[r] \in {"send", "error"}
        /\ (pc[r] = "send" /\ pc'[r] # "send") => pc'[r] \in {"recv", "error"}
        /\ (pc[r] # "idle" /\ exc[r] # "")
           => /\ exc'[r] = exc[r]
              /\ sock'[r] = sock[r]
              /\ SentBy(r)' = SentBy(r)
              /\ Len(conns') = Len(conns)
              /\ pc'[r] \in {"error", "errbody", "done"}
        /\ (pc[r] \in {"connect", "send", "recv", "parse"} /\ pc'[r] = "error")
           => clientRecv[r] = <<>>
        /\ (exc[r] # "" /\ clientRecv'[r] # clientRecv[r])
           => \/ clientRecv[r] = <<>>
                 /\ clientRecv'[r] = <<HeadWrite(error_head)>>
              \/ clientRecv[r] = <<HeadWrite(error_head)>>
                 /\ clientRecv'[r] = <<HeadWrite(error_head),
                                       BodyWrite(error_msg(exc[r]))>>

\* C12: no retries: once the backend call of a request has failed the handler
\* makes no further connect or send for it and the next thing written to the
\* client is the 502; a request has at most one connect attempt and at most
\* one send.
C12_NoRetries == [](SendsAtMostOnce) /\ [][NoSecondAttempt]_vars

\* A request whose backend reset the connection after taking the request
\* ended with the 502, the request sent once.
C12_Witness ==
    \E r \in Reqs :
        /\ Served(r) /\ Is502(r) /\ exc[r] = "ConnectionResetError"
        /\ sock[r] # 0 /\ HasSep(SentBy(r))
        /\ Len(conns) = 1

\* The positions of the spaces of a line.
SpacesOf(l) == {i \in 1 .. Len(l) : l[i] = "SP"}

FirstSpace(l) == CHOOSE i \in SpacesOf(l) : \A j \in SpacesOf(l) : i <= j

\* The second space-separated field of a line that has a space: what lies
\* between the first space and the next one, or the end of the line.
SecondField(l) ==
    LET i == FirstSpace(l)
        later == {j \in SpacesOf(l) : j > i}
    IN  IF later = {} THEN SubSeq(l, i + 1, Len(l))
        ELSE SubSeq(l, i + 1,
                    (CHOOSE j \in later : \A k \in later : j <= k) - 1)

\* The field is an integer without a sign: white space, one or more decimal
\* digits, white space.
IntegerSpans(f) ==
    {ab \in (1 .. Len(f)) \X (1 .. Len(f)) :
        /\ ab[1] <= ab[2]
        /\ \A k \in ab[1] .. ab[2] : IsDigit(f[k])
        /\ \A k \in 1 .. ab[1] - 1 : IsSpace(f[k])
        /\ \A k \in ab[2] + 1 .. Len(f) : IsSpace(f[k])}

\* The codes a line of the form <token> <integer> carries, with or without a
\* reason after the integer; none when the line is not of that form.
LenientCodes(l) ==
    IF SpacesOf(l) = {} THEN {}
    ELSE {DigitsValue(SubSeq(SecondField(l), ab[1], ab[2])) :
             ab \in IntegerSpans(SecondField(l))}

\* The same for a line that must have the reason part too.
StrictCodes(l) ==
    IF Cardinality(SpacesOf(l)) < 2 THEN {} ELSE LenientCodes(l)

\* The backend of r closed after a reply with a blank line and a header block
\* that decodes; l is that block's first line.
ParsesStatusLine(r) ==
    /\ IsProxied(req[r].method) /\ Served(r) /\ BackendClosed(r)
    /\ HasSep(Wrote(r)) /\ decodes(BeforeSep(Wrote(r)))

StatusLineOf(r) == LinesOf(BeforeSep(Wrote(r)))[1]

StateOf(p) ==
    CASE p = "idle" -> "NONE"
      [] p = "handle" -> "RECEIVED"
      [] p \in {"connect", "send"} -> "FORWARDING"
      [] p \in {"recv", "parse"} -> "AWAITING_RESPONSE"
      [] p = "body" -> "RELAYING"
      [] p = "error" -> "ERROR"
      [] p = "errbody" -> "RELAYING_502"
      [] p = "done" -> "DONE"

\* The transitions of the machine as the specification draws it.
DrawnTransitions ==
    {<<"NONE", "RECEIVED">>, <<"RECEIVED", "FORWARDING">>,
     <<"FORWARDING", "AWAITING_RESPONSE">>, <<"AWAITING_RESPONSE", "RELAYING">>,
     <<"RELAYING", "DONE">>,
     <<"FORWARDING", "ERROR">>, <<"AWAITING_RESPONSE", "ERROR">>,
     <<"RELAYING", "ERROR">>,
     <<"ERROR", "RELAYING_502">>, <<"RELAYING_502", "DONE">>}

\* The transitions the handler has besides: a failure while the request is
\* read, and the end of a handler that cannot write the 502 to its client.
OtherTransitions ==
    {<<"RECEIVED", "ERROR">>, <<"ERROR", "DONE">>}

Moves(r, transitions) ==
    (IsProxied(req'[r].method) /\ StateOf(pc'[r]) # StateOf(pc[r]))
    => <<StateOf(pc[r]), StateOf(pc'[r])>> \in transitions

\* C15, as first stated: a GET or POST moves along RECEIVED -> FORWARDING ->
\* AWAITING_RESPONSE -> RELAYING -> DONE and leaves that line only from a
\* middle state, by ERROR -> RELAYING_502 -> DONE; ERROR is never entered from
\* RECEIVED.
C15_DrawnStateMachine ==
    [][\A r \in Reqs : Moves(r, DrawnTransitions)]_vars

\* C15: a GET or POST moves along RECEIVED -> FORWARDING -> AWAITING_RESPONSE
\* -> RELAYING -> DONE and leaves that line by ERROR -> RELAYING_502 -> DONE,
\* from RECEIVED or a middle state; from ERROR it goes straight to DONE when
\* the 502 cannot be written.  No state is skipped or revisited and DONE is
\* terminal.
C15_StateMachine ==
    [][\A r \in Reqs :
          /\ Moves(r, DrawnTransitions \cup OtherTransitions)
          /\ pc[r] = "done" => pc'[r] = "done"
          /\ (pc[r] = "errbody" /\ pc'[r] = "done" /\ clientOk[r]) => Is502(r)'
          /\ (pc[r] = "error" /\ pc'[r] = "done") => ~clientOk[r]]_vars

\* A request went from RECEIVED to ERROR and on to DONE with the 502: its
\* Content-Length was no number and no backend was contacted.
C15_Witness ==
    \E r \in Reqs :
        /\ IsProxied(req[r].method) /\ Served(r) /\ Is502(r)
        /\ exc[r] = "ValueError" /\ sock[r] = 0 /\ conns = <<>>

\* The backend of r has written all it will write, r has received all of it,
\* and the backend has closed.
FullyReceived(r) ==
    /\ sock[r] # 0
    /\ conns[sock[r]].mode = "close"
    /\ conns[sock[r]].pending = <<>>
    /\ response[r] = Wrote(r)

\* C16, as a state predicate: the backend connection exists only once the
\* inbound body is read; the client has bytes of a relayed response only when
\* the backend has closed and the whole response is accumulated; a backend
\* that has sent all the bytes its Content-Length declares and keeps the
\* connection open gets nothing relayed.
NothingRelayedEarly ==
    \A r \in Reqs :
        /\ sock[r] # 0
           => /\ pc[r] \notin {"idle", "handle"}
              /\ body[r] = rfile_read(req[r].stream, content_length[r])
                 \/ content_length[r] <= 0
        /\ (IsProxied(req[r].method) /\ clientRecv[r] # <<>>)
           => \/ FullyReceived(r)
              \/ exc[r] # "" /\ HeadOf(r) = error_head
        /\ (sock[r] # 0 /\ conns[sock[r]].mode = "hang")
           => clientRecv[r] = <<>> /\ pc[r] \in {"send", "recv"}

\* C16, as a step: the steps come in the order read, connect, send, receive,
\* relay, and the receive loop ends only at the end of the stream.
StepsInOrder ==
    \A r \in Reqs :
        /\ sock'[r] # sock[r] => pc[r] = "connect" /\ sock[r] = 0
        /\ (pc[r] = "recv" /\ pc'[r] = "parse")
           => FullyReceived(r) /\ response'[r] = response[r]
        /\ (IsProxied(req'[r].method) /\ clientRecv'[r] # clientRecv[r])
           => pc[r] \in {"parse", "body", "error", "errbody"}

\* C16: the steps of a request are strictly sequential, with no streaming: the
\* backend is connected only after the inbound body is read, nothing of the
\* response goes to the client before the backend has closed and the full
\* response is accumulated, and no declared length ends the receiving early.
C16_NoStreaming == [](NothingRelayedEarly) /\ [][StepsInOrder]_vars

\* A backend sent a whole reply and keeps the connection open: the handler
\* waits, the client has nothing.
C16_Witness ==
    \E r \in Reqs :
        /\ pc[r] = "recv" /\ conns[sock[r]].mode = "hang"
        /\ conns[sock[r]].pending = <<>>
        /\ HasSep(response[r]) /\ AfterSep(response[r]) = <<"a">>
        /\ clientRecv[r] = <<>>

\* C17: every backend connection opened for a request is closed by the time
\* the handling of the request is done, on the success path and on every
\* failure path.
C17_SocketClosedWhenDone ==
    \A r \in Reqs :
        (pc[r] = "done" /\ sock[r] # 0) => conns[sock[r]].closed

\* The handler itself has closed the connection whenever the receive loop
\* ended at the end of the stream.
ClosedAfterEndOfStream ==
    \A r \in Reqs :
        (sock[r] # 0 /\ pc[r] \in {"body", "error", "errbody", "done"}
            /\ FullyReceived(r))
        => conns[sock[r]].closed

\* What handler q holds: the locals of its proxy_request call and its side of
\* the two connections.
LocalsOf(q) ==
    <<pc[q], req[q], content_length[q], body[q], sock[q], response[q],
      response_body[q], hbuf[q], exc[q], clientRecv[q], unhandled[q],
      IF sock[q] = 0 THEN <<>> ELSE conns[sock[q]]>>

\* C18, as a state predicate: what a handler has received is a prefix of what
\* the backend wrote on the handler's own connection, no two handlers hold the
\* same connection, and the status and body relayed are those of the bytes of
\* that connection.
RelaysOwnBytes ==
    \A r \in Reqs :
        /\ sock[r] # 0
           => /\ conns[sock[r]].users = {r}
              /\ Len(response[r]) <= Len(Wrote(r))
              /\ response[r] = SubSeq(Wrote(r), 1, Len(response[r]))
        /\ (Served(r) /\ exc[r] = "")
           => /\ HasSep(Wrote(r))
              /\ BodyOf(r) = AfterSep(Wrote(r))
              /\ \A c \in LenientCodes(LinesOf(BeforeSep(Wrote(r)))[1]) :
                    Responded(r, c)
              /\ LenientCodes(LinesOf(BeforeSep(Wrote(r)))[1]) # {}

\* C18, as a step: a step of a handler leaves the socket path and the port as
\* they are and changes nothing that another handler holds.
HandlersShareNothing ==
    \A r \in Reqs :
        (pc[r] # "idle" /\ LocalsOf(r)' # LocalsOf(r))
        => /\ pathExists' = pathExists
           /\ portFree' = portFree
           /\ server' = server
           /\ \A q \in Reqs \ {r} : LocalsOf(q)' = LocalsOf(q)

\* C18: concurrent handlers share no mutable state: no handler writes the port
\* or the socket path, and under every interleaving the status and body a
\* client gets come from the bytes received on the backend connection opened
\* for its own request.
C18_NoSharedState == [](RelaysOwnBytes) /\ [][HandlersShareNothing]_vars

\* Two requests ran at once, the one accepted later finished first, and each
\* client has the reply of its own connection: one the 200, the other the 404.
C18_Witness ==
    \E r, q \in Reqs :
        /\ r < q
        /\ Served(r) /\ Served(q)
        /\ sock[q] < sock[r]
        /\ Responded(r, 200) /\ BodyOf(r) = <<"a">>
        /\ Responded(q, 404) /\ BodyOf(q) = <<"b">>

\* C19: only GET and POST requests cause a backend connection: a request
\* with another method, PUT and DELETE included, opens no connection to the
\* Unix socket and sends the backend nothing.
C19_OnlyGetAndPostConnect ==
    /\ \A r \in Reqs :
          (pc[r] # "idle" /\ req[r].method \notin {"GET", "POST"})
          => /\ sock[r] = 0
             /\ ConnsOf(r) = {}
             /\ pc[r] \in {"handle", "done"}
    /\ \A i \in DOMAIN conns :
          \A r \in conns[i].users : req[r].method \in {"GET", "POST"}
    /\ (\A r \in Reqs : req[r].method \notin {"GET", "POST"}) => conns = <<>>

\* A DELETE was answered, with the 501 of the framework, while the socket
\* file was there and no connection was ever made.
C19_Witness ==
    \E r \in Reqs :
        /\ req[r].method = "DELETE" /\ Served(r) /\ Responded(r, 501)
        /\ pathExists /\ conns = <<>>

\* The client of r has the relayed status line and headers: a head with the
\* Content-Length the relay adds, which the 502 does not have.
HasRelayedHead(r) ==
    /\ clientRecv[r] # <<>>
    /\ clientRecv[r][1].kind = "head"
    /\ HeaderValues(HeadOf(r), "Content-Length") # {}

\* The header buffer of r holds a 502 status line: send_response(502) has run
\* and end_headers() has passed the line to the write on the client's
\* connection.
Starts502(r) ==
    \E i \in DOMAIN hbuf[r] :
        hbuf[r][i].name = "status" /\ hbuf[r][i].val = py_str(502)

\* C20: at most one response is started per request: the handler never writes
\* a 502 status line to a client to which it has written the relayed status
\* line and headers, also when the write of the relayed response fails
\* part-way.
C20_OneResponseStarted ==
    \A r \in Reqs :
        (IsProxied(req[r].method) /\ HasRelayedHead(r))
        => /\ pc[r] \notin {"error", "errbody"}
           /\ ~Starts502(r)
           /\ \A i \in 2 .. Len(clientRecv[r]) : clientRecv[r][i].kind # "head"

\* What holds of the bytes that reach the client: no second head, since the
\* write that fails is that of a client that has gone.
OneHeadDelivered ==
    \A r \in Reqs :
        clientRecv[r] # <<>>
        => /\ clientRecv[r][1].kind = "head"
           /\ \A i \in 2 .. Len(clientRecv[r]) : clientRecv[r][i].kind # "head"

====
